---- MODULE Spec2Model ----
(***************************************************************************)
(* Learning progress and gamification engine of the GO learning platform   *)
(* backend (backend/server.py, backend/database.py, backend/models.py).    *)
(*                                                                         *)
(* The MongoDB collections are sequences of documents in insertion order.  *)
(* Every awaited storage call of a request handler is one atomic step, so  *)
(* the handlers of concurrent requests interleave between their awaits,    *)
(* as coroutines of the event loop (or workers of several processes) do.   *)
(***************************************************************************)
EXTENDS Integers, Sequences, FiniteSets, TLC

\* ------------------------------------------------------------------ bounds

NumHandlers == 2   \* request handlers that can be in flight at once
MaxTime == 1       \* the clock runs over 0..MaxTime (milliseconds, as BSON stores them)
MaxCalls == 2      \* requests accepted in one behaviour

\* ------------------------------------------------------------------ inputs

Handlers == 1..NumHandlers

Users == {"u1"}

\* the author of the seeded quizzes and of the quizzes made by create_quiz
Teachers == {"t1"}

\* everyone who can send an authenticated request
Callers == Users \cup Teachers

\* current_user.role
Role(u) == IF u \in Teachers THEN "teacher" ELSE "student"

\* lessons of the catalog, with their points_reward (init_data.py seeds 100, 150, ...)
LessonIds == {"l1", "l2"}

\* a lesson id the lessons collection does not hold
MissingLessonIds == {"lx"}

lessons ==
    [l \in LessonIds |-> [id |-> l,
                          points_reward |-> IF l = "l1" THEN 100 ELSE 150,
                          difficulty |-> IF l = "l1" THEN "beginner" ELSE "intermediate"]]

\* the achievements init_default_achievements inserts at start-up
default_achievements ==
    << [id |-> "first_lesson",  points_reward |-> 50,  criteria |-> [lessons_completed |-> 1],  is_active |-> TRUE],
       [id |-> "quiz_master",   points_reward |-> 100, criteria |-> [perfect_quiz_score |-> 1], is_active |-> TRUE],
       [id |-> "week_streak",   points_reward |-> 200, criteria |-> [streak_days |-> 7],        is_active |-> TRUE],
       [id |-> "go_beginner",   points_reward |-> 150, criteria |-> [beginner_lessons |-> 5],   is_active |-> TRUE],
       [id |-> "code_explorer", points_reward |-> 300, criteria |-> [difficulty_variety |-> 3], is_active |-> TRUE] >>

\* further Achievement documents (models.py Achievement: criteria is any mapping
\* from metric name to threshold, is_active any boolean)
first_lesson == default_achievements[1]

two_lessons ==
    [id |-> "two_lessons", points_reward |-> 70, criteria |-> [lessons_completed |-> 2], is_active |-> TRUE]

combo ==
    [id |-> "combo", points_reward |-> 30,
     criteria |-> [lessons_completed |-> 1, streak_days |-> 7], is_active |-> TRUE]

retired ==
    [id |-> "retired", points_reward |-> 20, criteria |-> [lessons_completed |-> 1], is_active |-> FALSE]

\* the contents of the achievements collection a deployment can hold
Catalogs ==
    { default_achievements,
      <<two_lessons, retired, first_lesson>>,
      <<combo, first_lesson>> }

\* Achievement documents on the other metrics, with thresholds two lessons reach
beginner_one ==
    [id |-> "beginner_one", points_reward |-> 40, criteria |-> [beginner_lessons |-> 1], is_active |-> TRUE]

variety_two ==
    [id |-> "variety_two", points_reward |-> 60, criteria |-> [difficulty_variety |-> 2], is_active |-> TRUE]

\* Achievement documents whose criteria name a metric no code computes
mystery ==
    [id |-> "mystery", points_reward |-> 10, criteria |-> [bogus_metric |-> 1], is_active |-> TRUE]

mystery_lesson ==
    [id |-> "mystery_lesson", points_reward |-> 15,
     criteria |-> [lessons_completed |-> 1, bogus_metric |-> 1], is_active |-> TRUE]

\* achievements collections that exercise the evaluation of criteria
CriteriaCatalogs ==
    { default_achievements,
      <<beginner_one, variety_two, first_lesson>>,
      <<mystery, first_lesson>>,
      <<mystery_lesson, mystery, two_lessons>> }

AchievementIds ==
    { default_achievements[i].id : i \in 1..Len(default_achievements) }
    \cup { two_lessons.id, combo.id, retired.id }
    \cup { beginner_one.id, variety_two.id, mystery.id, mystery_lesson.id }

\* ------------------------------------------------------------------ state

VARIABLES
    now,               \* datetime.utcnow(), at the millisecond resolution MongoDB stores
    users,             \* users collection: user id -> [points, streak_days]
    lesson_progress,   \* lesson_progress collection
    user_achievements, \* user_achievements collection
    achievements,      \* achievements collection
    pc,                \* per handler: the await it is suspended at
    frame,             \* per handler: the local variables of the request
    calls,             \* requests accepted so far
    lesson_awards,     \* history: lesson point awards per (user, lesson)
    achievement_awards, \* history: achievement point awards per (user, achievement)
    quizzes,           \* quizzes collection
    quiz_attempts,     \* quiz_attempts collection
    classes,           \* classes collection
    created_lessons    \* lessons collection: the documents create_lesson inserted

vars == << now, users, lesson_progress, user_achievements, achievements,
           pc, frame, calls, lesson_awards, achievement_awards, quizzes, quiz_attempts,
           classes, created_lessons >>

\* the collections the lesson and achievement handlers never write
quiz_vars == << quizzes, quiz_attempts >>

\* the collections only the authoring and enrolment handlers write
authoring_vars == << classes, created_lessons >>

\* Optional[datetime]: << >> is None, <<t>> is the time t
None == << >>

IdleFrame ==
    [ op |-> "none", user_id |-> "", lesson_id |-> "", changed |-> FALSE,
      lessons_completed |-> 0, available_achievements |-> << >>,
      idx |-> 1, response |-> "none",
      quiz_id |-> 0, quiz |-> << >>, body |-> << >>, class_id |-> 0,
      attempt_id |-> 0, answers |-> << >> ]

\* ------------------------------------------------------------------ storage

\* positions of the documents of a collection that satisfy a filter on (user_id, key)
MatchProgress(coll, u, l) ==
    { i \in 1..Len(coll) : coll[i].user_id = u /\ coll[i].lesson_id = l }

MatchAchievement(coll, u, a) ==
    { i \in 1..Len(coll) : coll[i].user_id = u /\ coll[i].achievement_id = a }

Min(S) == CHOOSE x \in S : \A y \in S : x <= y

\* lesson_progress.count_documents({"user_id": u, "is_completed": True})
CountCompleted(coll, u) ==
    Cardinality({ i \in 1..Len(coll) : coll[i].user_id = u /\ coll[i].is_completed })

\* the document update_one(..., {"$set": {is_completed: True, completed_at: t}}) leaves
SetCompleted(doc, t) ==
    [doc EXCEPT !.is_completed = TRUE, !.completed_at = <<t>>]

\* update_one(filter, $set, upsert=True) on lesson_progress: the collection after
\* the call; the first matching document is updated, or a document built from
\* the filter and the $set fields is inserted
UpdateOneUpsert(coll, u, l, t) ==
    IF MatchProgress(coll, u, l) # {}
    THEN LET i == Min(MatchProgress(coll, u, l))
         IN  [coll EXCEPT ![i] = SetCompleted(coll[i], t)]
    ELSE Append(coll, [user_id |-> u, lesson_id |-> l,
                       is_completed |-> TRUE, completed_at |-> <<t>>])

\* the test without upserted_id: only a modified document counts
UpsertedOrModified_ModifiedOnly(coll, u, l, t) ==
    IF MatchProgress(coll, u, l) # {}
    THEN LET i == Min(MatchProgress(coll, u, l))
         IN  SetCompleted(coll[i], t) # coll[i]
    ELSE FALSE

\* the test without modified_count: only an inserted document counts
UpsertedOrModified_UpsertOnly(coll, u, l, t) == MatchProgress(coll, u, l) = {}

\* result.upserted_id or result.modified_count > 0: a document was inserted, or
\* the matched document differs from what it was (MongoDB does not count a
\* $set that changes nothing as a modification)
UpsertedOrModified(coll, u, l, t) ==
    IF MatchProgress(coll, u, l) # {}
    THEN LET i == Min(MatchProgress(coll, u, l))
         IN  SetCompleted(coll[i], t) # coll[i]
    ELSE TRUE

\* lesson_progress without its unique index: insert_one never raises
DuplicateKeyProgress_NoIndex(coll, u, l) == FALSE

\* the unique index on lesson_progress (user_id, lesson_id): insert_one raises
\* DuplicateKeyError when a document with the key exists
DuplicateKeyProgress(coll, u, l) == MatchProgress(coll, u, l) # {}

\* the collection without its unique index: insert_one never raises
DuplicateKey_NoIndex(coll, u, a) == FALSE

\* the unique index on (user_id, achievement_id): insert_one raises
\* DuplicateKeyError when a document with the key exists
DuplicateKey(coll, u, a) == MatchAchievement(coll, u, a) # {}

\* ------------------------------------------------------------------ criteria

\* the decision with a strict comparison
Earned_StrictThreshold(criteria, lessons_completed) ==
    /\ "lessons_completed" \in DOMAIN criteria
    /\ lessons_completed > criteria["lessons_completed"]

\* check_achievements' decision for one candidate
Earned(criteria, lessons_completed) ==
    /\ "lessons_completed" \in DOMAIN criteria
    /\ lessons_completed >= criteria["lessons_completed"]

\* the query without its $nin clause
Available_IgnoresEarned(catalog, earned_achievement_ids) ==
    SelectSeq(catalog, LAMBDA a : a.is_active)

\* the query without its is_active clause
Available_IgnoresActive(catalog, earned_achievement_ids) ==
    SelectSeq(catalog, LAMBDA a : a.id \notin earned_achievement_ids)

\* find({"is_active": True, "id": {"$nin": earned}}) on achievements, in collection order
RECURSIVE Available(_, _)
Available(catalog, earned_achievement_ids) ==
    IF catalog = << >> THEN << >>
    ELSE LET a == Head(catalog)
             rest == Available(Tail(catalog), earned_achievement_ids)
         IN  IF a.is_active /\ a.id \notin earned_achievement_ids
             THEN <<a>> \o rest ELSE rest

\* ------------------------------------------------------------------ initial state

\* the document of a user: User(**user_data) with the defaults of the model class
NewUser(verified) ==
    [points |-> 0, streak_days |-> 0, last_login |-> None, is_verified |-> verified]

InitWith(catalogs, quiz_collections, class_collections, attempt_collections) ==
    /\ now = 0
    /\ users = [u \in Callers |-> NewUser(TRUE)]
    /\ lesson_progress = << >>
    /\ user_achievements = << >>
    /\ achievements \in catalogs
    /\ pc = [h \in Handlers |-> "idle"]
    /\ frame = [h \in Handlers |-> IdleFrame]
    /\ calls = 0
    /\ lesson_awards = [u \in Users |-> [l \in LessonIds |-> 0]]
    /\ achievement_awards = [u \in Users |-> [a \in AchievementIds |-> 0]]
    /\ quizzes \in quiz_collections
    /\ quiz_attempts \in attempt_collections
    /\ classes \in class_collections
    /\ created_lessons = << >>

Init == InitWith(Catalogs, {<< >>}, {<< >>}, {<< >>})

InitCriteria == InitWith(CriteriaCatalogs, {<< >>}, {<< >>}, {<< >>})

\* ------------------------------------------------------------------ the clock

\* the clock is read only to stamp completed_at, so an advance is visible only
\* once some document carries the current time
Tick ==
    /\ now < MaxTime
    /\ \E i \in 1..Len(lesson_progress) : lesson_progress[i].completed_at = <<now>>
    /\ now' = now + 1
    /\ UNCHANGED quiz_vars
    /\ UNCHANGED authoring_vars
    /\ UNCHANGED << users, lesson_progress, user_achievements, achievements,
                    pc, frame, calls, lesson_awards, achievement_awards >>

\* ------------------------------------------------------------------ complete_lesson

\* a handler slot takes the next request when it holds none; requests go to the
\* lowest free slot (the slots are interchangeable)
Free(h) == pc[h] \in {"idle", "done"}

NextFree(h) == Free(h) /\ \A g \in Handlers : Free(g) => h <= g

\* the frame a request leaves behind with its response
Answered(f, r) ==
    [IdleFrame EXCEPT !.op = f.op, !.user_id = f.user_id, !.lesson_id = f.lesson_id,
                      !.changed = f.changed, !.response = r]

\* the request accepted without the test of lessons.find_one's result
CompleteLesson_FindLesson_NoCheck(h, u, l) ==
    /\ NextFree(h)
    /\ calls < MaxCalls
    /\ calls' = calls + 1
    /\ pc' = [pc EXCEPT ![h] = "update_progress"]
    /\ frame' = [frame EXCEPT ![h] = [IdleFrame EXCEPT !.op = "complete_lesson",
                                                      !.user_id = u, !.lesson_id = l]]
    /\ UNCHANGED quiz_vars
    /\ UNCHANGED authoring_vars
    /\ UNCHANGED << now, users, lesson_progress, user_achievements, achievements,
                    lesson_awards, achievement_awards >>

\* PUT /lessons/{lesson_id}/complete arrives; lessons.find_one decides 404
CompleteLesson_FindLesson(h, u, l) ==
    /\ NextFree(h)
    /\ calls < MaxCalls
    /\ calls' = calls + 1
    /\ IF l \in DOMAIN lessons
       THEN /\ pc' = [pc EXCEPT ![h] = "update_progress"]
            /\ frame' = [frame EXCEPT ![h] = [IdleFrame EXCEPT !.op = "complete_lesson",
                                                              !.user_id = u, !.lesson_id = l]]
       ELSE /\ pc' = [pc EXCEPT ![h] = "done"]
            /\ frame' = [frame EXCEPT ![h] = [IdleFrame EXCEPT !.op = "complete_lesson",
                                                              !.user_id = u, !.lesson_id = l,
                                                              !.response = "not_found"]]
    /\ UNCHANGED quiz_vars
    /\ UNCHANGED authoring_vars
    /\ UNCHANGED << now, users, lesson_progress, user_achievements, achievements,
                    lesson_awards, achievement_awards >>

\* lesson_progress.update_one(..., upsert=True), then the test of its result
CompleteLesson_UpdateProgress(h) ==
    /\ pc[h] = "update_progress"
    /\ LET u == frame[h].user_id
           l == frame[h].lesson_id
           changed == UpsertedOrModified(lesson_progress, u, l, now)
       IN  /\ lesson_progress' = UpdateOneUpsert(lesson_progress, u, l, now)
           /\ IF changed
              THEN /\ pc' = [pc EXCEPT ![h] = "award_lesson"]
                   /\ frame' = [frame EXCEPT ![h].changed = TRUE]
              ELSE /\ pc' = [pc EXCEPT ![h] = "done"]
                   /\ frame' = [frame EXCEPT ![h] = Answered(frame[h], "success")]
    /\ UNCHANGED quiz_vars
    /\ UNCHANGED authoring_vars
    /\ UNCHANGED << now, users, user_achievements, achievements, calls,
                    lesson_awards, achievement_awards >>

\* users.update_one({"id": u}, {"$inc": {"points": lesson["points_reward"]}})
CompleteLesson_AwardPoints(h) ==
    /\ pc[h] = "award_lesson"
    /\ LET u == frame[h].user_id
           l == frame[h].lesson_id
       IN  /\ users' = [users EXCEPT ![u].points = @ + lessons[l].points_reward]
           /\ lesson_awards' = [lesson_awards EXCEPT ![u][l] = @ + 1]
    /\ pc' = [pc EXCEPT ![h] = "count_lessons"]
    /\ UNCHANGED quiz_vars
    /\ UNCHANGED authoring_vars
    /\ UNCHANGED << now, lesson_progress, user_achievements, achievements, frame, calls,
                    achievement_awards >>

\* ------------------------------------------------------------------ start_lesson

\* the document LessonProgress(user_id, lesson_id).dict() inserts (started_at
\* and notes, which no handler reads, are left out)
NewProgress(u, l) ==
    [user_id |-> u, lesson_id |-> l, is_completed |-> FALSE, completed_at |-> None,
     time_spent |-> 0]

\* POST /lessons/{lesson_id}/progress arrives; lessons.find_one decides 404
StartLesson_FindLesson(h, u, l) ==
    /\ NextFree(h)
    /\ calls < MaxCalls
    /\ calls' = calls + 1
    /\ IF l \in DOMAIN lessons
       THEN /\ pc' = [pc EXCEPT ![h] = "find_progress"]
            /\ frame' = [frame EXCEPT ![h] = [IdleFrame EXCEPT !.op = "start_lesson",
                                                              !.user_id = u, !.lesson_id = l]]
       ELSE /\ pc' = [pc EXCEPT ![h] = "done"]
            /\ frame' = [frame EXCEPT ![h] = [IdleFrame EXCEPT !.op = "start_lesson",
                                                              !.user_id = u, !.lesson_id = l,
                                                              !.response = "not_found"]]
    /\ UNCHANGED quiz_vars
    /\ UNCHANGED authoring_vars
    /\ UNCHANGED << now, users, lesson_progress, user_achievements, achievements,
                    lesson_awards, achievement_awards >>

\* start_lesson that starts an existing record over
StartLesson_FindProgress_Restarts(h) ==
    /\ pc[h] = "find_progress"
    /\ LET u == frame[h].user_id
           l == frame[h].lesson_id
       IN  IF MatchProgress(lesson_progress, u, l) # {}
           THEN /\ pc' = [pc EXCEPT ![h] = "done"]
                /\ frame' = [frame EXCEPT ![h] = Answered(frame[h], "success")]
                /\ lesson_progress' =
                       [lesson_progress EXCEPT ![Min(MatchProgress(lesson_progress, u, l))] =
                                                   NewProgress(u, l)]
           ELSE /\ pc' = [pc EXCEPT ![h] = "insert_progress"]
                /\ frame' = frame
                /\ UNCHANGED lesson_progress
    /\ UNCHANGED quiz_vars
    /\ UNCHANGED authoring_vars
    /\ UNCHANGED << now, users, user_achievements, achievements,
                    calls, lesson_awards, achievement_awards >>

\* lesson_progress.find_one: an existing record answers "Lesson already started"
StartLesson_FindProgress(h) ==
    /\ pc[h] = "find_progress"
    /\ IF MatchProgress(lesson_progress, frame[h].user_id, frame[h].lesson_id) # {}
       THEN /\ pc' = [pc EXCEPT ![h] = "done"]
            /\ frame' = [frame EXCEPT ![h] = Answered(frame[h], "success")]
       ELSE /\ pc' = [pc EXCEPT ![h] = "insert_progress"]
            /\ frame' = frame
    /\ UNCHANGED quiz_vars
    /\ UNCHANGED authoring_vars
    /\ UNCHANGED << now, users, lesson_progress, user_achievements, achievements,
                    calls, lesson_awards, achievement_awards >>

\* lesson_progress.insert_one; a DuplicateKeyError is caught nowhere
StartLesson_Insert(h) ==
    /\ pc[h] = "insert_progress"
    /\ LET u == frame[h].user_id
           l == frame[h].lesson_id
       IN  IF DuplicateKeyProgress(lesson_progress, u, l)
           THEN /\ frame' = [frame EXCEPT ![h] = Answered(frame[h], "error")]
                /\ UNCHANGED lesson_progress
           ELSE /\ frame' = [frame EXCEPT ![h] = Answered(frame[h], "success")]
                /\ lesson_progress' = Append(lesson_progress, NewProgress(u, l))
    /\ pc' = [pc EXCEPT ![h] = "done"]
    /\ UNCHANGED quiz_vars
    /\ UNCHANGED authoring_vars
    /\ UNCHANGED << now, users, user_achievements, achievements, calls,
                    lesson_awards, achievement_awards >>

\* ------------------------------------------------------------------ check_achievements

\* lesson_progress.count_documents (quizzes_completed is counted next and never read)
Check_CountLessons(h) ==
    /\ pc[h] = "count_lessons"
    /\ frame' = [frame EXCEPT ![h].lessons_completed =
                                  CountCompleted(lesson_progress, frame[h].user_id)]
    /\ pc' = [pc EXCEPT ![h] = "find_available"]
    /\ UNCHANGED quiz_vars
    /\ UNCHANGED authoring_vars
    /\ UNCHANGED << now, users, lesson_progress, user_achievements, achievements,
                    calls, lesson_awards, achievement_awards >>

\* user_achievements.find, then achievements.find with $nin of the earned ids
Check_FindAvailable(h) ==
    /\ pc[h] = "find_available"
    /\ LET u == frame[h].user_id
           earned_achievement_ids ==
               { user_achievements[i].achievement_id :
                     i \in { j \in 1..Len(user_achievements) : user_achievements[j].user_id = u } }
       IN  frame' = [frame EXCEPT ![h].available_achievements =
                                      Available(achievements, earned_achievement_ids),
                                  ![h].idx = 1]
    /\ pc' = [pc EXCEPT ![h] = "loop"]
    /\ UNCHANGED quiz_vars
    /\ UNCHANGED authoring_vars
    /\ UNCHANGED << now, users, lesson_progress, user_achievements, achievements,
                    calls, lesson_awards, achievement_awards >>

\* the loop with a compensation: a DuplicateKeyError takes back the completion
\* of the lesson and its points before the request fails
Check_Loop_RollsBack(h) ==
    /\ pc[h] = "loop"
    /\ LET f == frame[h]
           u == f.user_id
           l == f.lesson_id
       IN  IF f.idx > Len(f.available_achievements)
           THEN /\ pc' = [pc EXCEPT ![h] = "done"]
                /\ frame' = [frame EXCEPT ![h] = Answered(f, "success")]
                /\ UNCHANGED << user_achievements, lesson_progress, users, lesson_awards >>
           ELSE LET achievement == f.available_achievements[f.idx]
                IN  IF ~Earned(achievement.criteria, f.lessons_completed)
                    THEN /\ pc' = pc
                         /\ frame' = [frame EXCEPT ![h].idx = @ + 1]
                         /\ UNCHANGED << user_achievements, lesson_progress, users, lesson_awards >>
                    ELSE IF DuplicateKey(user_achievements, u, achievement.id)
                         THEN /\ pc' = [pc EXCEPT ![h] = "done"]
                              /\ frame' = [frame EXCEPT ![h].response = "error"]
                              /\ lesson_progress' =
                                     [lesson_progress EXCEPT
                                         ![Min(MatchProgress(lesson_progress, u, l))] = NewProgress(u, l)]
                              /\ users' = [users EXCEPT ![u].points = @ - lessons[l].points_reward]
                              /\ lesson_awards' = [lesson_awards EXCEPT ![u][l] = @ - 1]
                              /\ UNCHANGED user_achievements
                         ELSE /\ pc' = [pc EXCEPT ![h] = "award_points"]
                              /\ frame' = frame
                              /\ user_achievements' =
                                     Append(user_achievements,
                                            [user_id |-> u, achievement_id |-> achievement.id])
                              /\ UNCHANGED << lesson_progress, users, lesson_awards >>
    /\ UNCHANGED quiz_vars
    /\ UNCHANGED authoring_vars
    /\ UNCHANGED << now, achievements, calls, achievement_awards >>

\* one iteration of the loop over available_achievements, up to its insert_one;
\* the loop's end returns to complete_lesson, which answers success; a
\* DuplicateKeyError is caught nowhere and ends the request with a server error
Check_Loop(h) ==
    /\ pc[h] = "loop"
    /\ LET f == frame[h]
           u == f.user_id
       IN  IF f.idx > Len(f.available_achievements)
           THEN /\ pc' = [pc EXCEPT ![h] = "done"]
                /\ frame' = [frame EXCEPT ![h] = Answered(f, "success")]
                /\ UNCHANGED user_achievements
           ELSE LET achievement == f.available_achievements[f.idx]
                IN  IF ~Earned(achievement.criteria, f.lessons_completed)
                    THEN /\ pc' = pc
                         /\ frame' = [frame EXCEPT ![h].idx = @ + 1]
                         /\ UNCHANGED user_achievements
                    ELSE IF DuplicateKey(user_achievements, u, achievement.id)
                         THEN /\ pc' = [pc EXCEPT ![h] = "done"]
                              /\ frame' = [frame EXCEPT ![h].response = "error"]
                              /\ UNCHANGED user_achievements
                         ELSE /\ pc' = [pc EXCEPT ![h] = "award_points"]
                              /\ frame' = frame
                              /\ user_achievements' =
                                     Append(user_achievements,
                                            [user_id |-> u, achievement_id |-> achievement.id])
    /\ UNCHANGED quiz_vars
    /\ UNCHANGED authoring_vars
    /\ UNCHANGED << now, users, lesson_progress, achievements, calls,
                    lesson_awards, achievement_awards >>

\* the award followed by a return: the pass ends with its first grant
Check_AwardPoints_EndsPass(h) ==
    /\ pc[h] = "award_points"
    /\ LET f == frame[h]
           u == f.user_id
           achievement == f.available_achievements[f.idx]
       IN  /\ users' = [users EXCEPT ![u].points = @ + achievement.points_reward]
           /\ achievement_awards' = [achievement_awards EXCEPT ![u][achievement.id] = @ + 1]
    /\ pc' = [pc EXCEPT ![h] = "done"]
    /\ frame' = [frame EXCEPT ![h] = Answered(frame[h], "success")]
    /\ UNCHANGED quiz_vars
    /\ UNCHANGED authoring_vars
    /\ UNCHANGED << now, lesson_progress, user_achievements, achievements, calls,
                    lesson_awards >>

\* users.update_one({"id": u}, {"$inc": {"points": achievement["points_reward"]}})
Check_AwardPoints(h) ==
    /\ pc[h] = "award_points"
    /\ LET f == frame[h]
           u == f.user_id
           achievement == f.available_achievements[f.idx]
       IN  /\ users' = [users EXCEPT ![u].points = @ + achievement.points_reward]
           /\ achievement_awards' = [achievement_awards EXCEPT ![u][achievement.id] = @ + 1]
    /\ pc' = [pc EXCEPT ![h] = "loop"]
    /\ frame' = [frame EXCEPT ![h].idx = @ + 1]
    /\ UNCHANGED quiz_vars
    /\ UNCHANGED authoring_vars
    /\ UNCHANGED << now, lesson_progress, user_achievements, achievements, calls,
                    lesson_awards >>

\* ------------------------------------------------------------------ storage failures

\* an awaited storage call raises (connection lost, server unavailable): nothing
\* is written, no handler of the request catches it, the request ends in error
StorageFailure(h) ==
    /\ pc[h] \in {"update_progress", "award_lesson", "count_lessons",
                  "find_available", "award_points", "find_progress", "insert_progress"}
    /\ pc' = [pc EXCEPT ![h] = "done"]
    /\ frame' = [frame EXCEPT ![h].response = "error"]
    /\ UNCHANGED quiz_vars
    /\ UNCHANGED authoring_vars
    /\ UNCHANGED << now, users, lesson_progress, user_achievements, achievements,
                    calls, lesson_awards, achievement_awards >>

\* ------------------------------------------------------------------ specifications

\* the steps every request takes once accepted
Step ==
    \/ \E h \in Handlers : CompleteLesson_UpdateProgress(h)
    \/ \E h \in Handlers : CompleteLesson_AwardPoints(h)
    \/ \E h \in Handlers : Check_CountLessons(h)
    \/ \E h \in Handlers : Check_FindAvailable(h)
    \/ \E h \in Handlers : Check_Loop(h)
    \/ \E h \in Handlers : Check_AwardPoints(h)
    \/ \E h \in Handlers : StartLesson_FindProgress(h)
    \/ \E h \in Handlers : StartLesson_Insert(h)

\* concurrent requests over a storage that does not fail
Next ==
    \/ Tick
    \/ \E h \in Handlers, u \in Users, l \in LessonIds \cup MissingLessonIds :
           CompleteLesson_FindLesson(h, u, l)
    \/ \E h \in Handlers, u \in Users, l \in LessonIds \cup MissingLessonIds :
           StartLesson_FindLesson(h, u, l)
    \/ Step

Spec == Init /\ [][Next]_vars

\* sequential requests: one is accepted only when no other is in flight
CompleteLesson_Sequential(h, u, l) ==
    /\ \A g \in Handlers : Free(g)
    /\ CompleteLesson_FindLesson(h, u, l)

StartLesson_Sequential(h, u, l) ==
    /\ \A g \in Handlers : Free(g)
    /\ StartLesson_FindLesson(h, u, l)

NextSeq ==
    \/ Tick
    \/ \E h \in Handlers, u \in Users, l \in LessonIds \cup MissingLessonIds :
           CompleteLesson_Sequential(h, u, l)
    \/ \E h \in Handlers, u \in Users, l \in LessonIds \cup MissingLessonIds :
           StartLesson_Sequential(h, u, l)
    \/ Step

SpecSeq == Init /\ [][NextSeq]_vars

\* sequential requests over achievements collections with criteria of every kind
SpecCriteria == InitCriteria /\ [][NextSeq]_vars

\* concurrent requests over a storage whose calls can fail
NextFault ==
    \/ Next
    \/ \E h \in Handlers : StorageFailure(h)

SpecFault == Init /\ [][NextFault]_vars

\* ------------------------------------------------------------------ properties

HasRecord(u, a) == MatchAchievement(user_achievements, u, a) # {}

NumRecords(u, a) == Cardinality(MatchAchievement(user_achievements, u, a))

\* the handler is inside check_achievements
InPass(h) == pc[h] \in {"count_lessons", "find_available", "loop", "award_points"}

\* no check_achievements pass is in progress for the learner
Quiescent(u) == \A h \in Handlers : frame[h].user_id = u => ~InPass(h)

\* the pass of handler h found achievement a qualifying and called insert_one for it
Attempted(h, a) ==
    LET f == frame[h]
    IN  \E j \in 1..Len(f.available_achievements) :
            /\ f.available_achievements[j].id = a
            /\ Earned(f.available_achievements[j].criteria, f.lessons_completed)
            /\ \/ j < f.idx /\ pc[h] \in {"loop", "award_points", "done"}
               \/ j = f.idx /\ pc[h] = "award_points"
               \/ j = f.idx /\ pc[h] = "done" /\ f.response = "error"

RECURSIVE SumLessonPoints(_, _)
SumLessonPoints(u, S) ==
    IF S = {} THEN 0
    ELSE LET l == CHOOSE x \in S : TRUE
         IN  lesson_awards[u][l] * lessons[l].points_reward + SumLessonPoints(u, S \ {l})

RECURSIVE SumAchievementPoints(_, _)
SumAchievementPoints(u, n) ==
    IF n = 0 THEN 0
    ELSE achievement_awards[u][achievements[n].id] * achievements[n].points_reward
         + SumAchievementPoints(u, n - 1)

\* the balance is the sum of the awards made
BalanceIsAwards(u) ==
    users[u].points = SumLessonPoints(u, LessonIds) + SumAchievementPoints(u, Len(achievements))

\* C1: at-most-once achievement award. In every interleaving of concurrent
\* qualifying events of one learner there is never more than one UserAchievement
\* record for (learner, A) and A's reward is never credited more often than a
\* record exists; once no pass is in progress the reward has been credited
\* exactly as often as a record exists, the balance is the sum of the awards,
\* and every pass that found A qualifying leaves exactly one record for it.
C1_AtMostOnceAward ==
    \A u \in Users : \A a \in AchievementIds :
        /\ NumRecords(u, a) <= 1
        /\ achievement_awards[u][a] <= NumRecords(u, a)
        /\ Quiescent(u) => /\ achievement_awards[u][a] = NumRecords(u, a)
                           /\ BalanceIsAwards(u)
        /\ \A h \in Handlers :
               (frame[h].user_id = u /\ Attempted(h, a) /\ pc[h] # "award_points")
                   => (NumRecords(u, a) = 1 /\ (Quiescent(u) => achievement_awards[u][a] = 1))

\* two concurrent passes both found A qualifying; one lost the race on the
\* unique index, and in the final state A has one record and one credit
C1_Witness ==
    \E h \in Handlers : \E g \in Handlers \ {h} : \E a \in AchievementIds :
        /\ pc[h] = "done" /\ frame[h].response = "error" /\ Attempted(h, a)
        /\ pc[g] = "done" /\ frame[g].response = "success" /\ frame[g].changed
        /\ frame[g].user_id = frame[h].user_id
        /\ NumRecords(frame[h].user_id, a) = 1
        /\ achievement_awards[frame[h].user_id][a] = 1
        /\ users[frame[h].user_id].points > 0

\* the handler is between its update of lesson_progress and its response, having
\* credited the lesson's points
LessonAwarded(h) == InPass(h)

\* C2: two concurrent complete_lesson calls for the same learner and the same
\* lesson award the lesson's points once: whenever two requests for one
\* (learner, lesson) are in flight together and each has credited the lesson's
\* points, the pair has been credited at most once.
C2_ConcurrentCompletionAwardsOnce ==
    \A h \in Handlers : \A g \in Handlers \ {h} :
        ( /\ frame[h].user_id = frame[g].user_id
          /\ frame[h].lesson_id = frame[g].lesson_id
          /\ LessonAwarded(h) /\ LessonAwarded(g) )
            => lesson_awards[frame[h].user_id][frame[h].lesson_id] <= 1

\* C3: complete_lesson is idempotent in its rewards: over sequential calls a
\* (learner, lesson) pair is credited at most once, and a call that finds the
\* record already completed credits nothing and starts no achievement pass.
C3_SequentialCompletionAwardsOnce ==
    /\ \A u \in Users : \A l \in LessonIds : lesson_awards[u][l] <= 1
    /\ \A h \in Handlers :
           pc[h] = "award_lesson" => lesson_awards[frame[h].user_id][frame[h].lesson_id] = 0
    /\ \A h \in Handlers :
           InPass(h) => lesson_awards[frame[h].user_id][frame[h].lesson_id] = 1

\* C4: a complete_lesson call on an already completed (learner, lesson) leaves
\* the stored LessonProgress record as it was, completed_at and is_completed
\* included: no step changes a record that is completed.
C4_CompletedRecordUnchanged ==
    [][ \A i \in 1..Len(lesson_progress) :
            lesson_progress[i].is_completed
                => (i <= Len(lesson_progress') /\ lesson_progress'[i] = lesson_progress[i]) ]_vars

\* C5: the UserAchievement record and the credit of its reward happen together
\* or not at all: whenever no pass is in progress for the learner, a record for
\* (learner, A) exists if and only if A's reward has been credited.
C5_RecordIffCredited ==
    \A u \in Users : \A a \in AchievementIds :
        Quiescent(u) => (HasRecord(u, a) <=> achievement_awards[u][a] >= 1)

\* C6: a failure awarding one achievement does not abort the pass: when a
\* request has ended with an award failure, every later candidate of its pass
\* that qualifies by the statistics of the pass has been awarded.
C6_FailureDoesNotAbortPass ==
    \A h \in Handlers :
        (pc[h] = "done" /\ frame[h].response = "error")
            => \A j \in (frame[h].idx + 1)..Len(frame[h].available_achievements) :
                   Earned(frame[h].available_achievements[j].criteria, frame[h].lessons_completed)
                       => HasRecord(frame[h].user_id, frame[h].available_achievements[j].id)

\* C7: losing the race on the (learner, achievement) uniqueness constraint never
\* surfaces to the caller: every complete_lesson request for an existing lesson
\* that has ended reports success.
C7_AwardFailureNotSurfaced ==
    \A h \in Handlers :
        (pc[h] = "done" /\ frame[h].op = "complete_lesson" /\ frame[h].lesson_id \in DOMAIN lessons)
            => frame[h].response = "success"

\* C8: an achievement requiring lessons_completed: k has no record while the
\* learner has fewer than k completed lessons, and over sequential events it
\* has one when the request whose completion brought the count to k has ended
\* its pass.
C8_GrantedAtThreshold ==
    \A u \in Users : \A i \in 1..Len(achievements) :
        LET a == achievements[i]
        IN  "lessons_completed" \in DOMAIN a.criteria =>
                /\ HasRecord(u, a.id)
                       => CountCompleted(lesson_progress, u) >= a.criteria["lessons_completed"]
                /\ \A h \in Handlers :
                       ( /\ pc[h] = "done" /\ frame[h].user_id = u
                         /\ frame[h].changed /\ frame[h].response = "success"
                         /\ a.is_active
                         /\ CountCompleted(lesson_progress, u) >= a.criteria["lessons_completed"] )
                           => HasRecord(u, a.id)

\* the request that completed the second lesson has ended and the achievement
\* requiring two completed lessons is granted, the one-lesson achievement too
C8_Witness ==
    \E h \in Handlers :
        /\ pc[h] = "done" /\ frame[h].changed /\ frame[h].response = "success"
        /\ CountCompleted(lesson_progress, frame[h].user_id) = 2
        /\ HasRecord(frame[h].user_id, two_lessons.id)
        /\ achievement_awards[frame[h].user_id][two_lessons.id] = 1
        /\ HasRecord(frame[h].user_id, first_lesson.id)

\* C9: an earned achievement is never re-granted by a later sequential event:
\* a pass that starts when the record (learner, A) exists does not hold A among
\* its candidates, and A never has a second record or a second credit.
C9_NoRegrant ==
    /\ \A u \in Users : \A a \in AchievementIds :
           NumRecords(u, a) <= 1 /\ achievement_awards[u][a] <= 1
    /\ \A h \in Handlers :
           pc[h] = "loop" =>
               \A j \in frame[h].idx..Len(frame[h].available_achievements) :
                   ~HasRecord(frame[h].user_id, frame[h].available_achievements[j].id)

\* a pass counts two completed lessons while the one-lesson achievement is
\* already earned: it starts its loop without that achievement
C9_Witness ==
    \E h \in Handlers :
        /\ pc[h] = "loop" /\ frame[h].idx = 1
        /\ frame[h].lessons_completed = 2
        /\ HasRecord(frame[h].user_id, first_lesson.id)
        /\ achievement_awards[frame[h].user_id][first_lesson.id] = 1
        /\ \A j \in 1..Len(frame[h].available_achievements) :
               frame[h].available_achievements[j].id # first_lesson.id
        /\ frame[h].available_achievements # << >>

\* the learner's statistics the stored documents determine
Stats(u) ==
    [ lessons_completed |-> CountCompleted(lesson_progress, u),
      streak_days |-> users[u].streak_days ]

\* C10: an achievement with several criteria is granted only when every
\* criterion is satisfied by the learner's statistics: no record exists for an
\* achievement one of whose criteria on lessons_completed or streak_days the
\* learner's statistics do not reach.
C10_AllCriteriaSatisfied ==
    \A u \in Users : \A i \in 1..Len(achievements) :
        LET a == achievements[i]
        IN  HasRecord(u, a.id) =>
                \A metric \in DOMAIN a.criteria \cap DOMAIN Stats(u) :
                    Stats(u)[metric] >= a.criteria[metric]

\* the positions of the learner's completed LessonProgress documents
CompletedDocs(u) ==
    { i \in 1..Len(lesson_progress) :
          lesson_progress[i].user_id = u /\ lesson_progress[i].is_completed }

\* the learner's statistics on every metric the default achievements name,
\* recomputed from the stored documents (no QuizAttempt is ever completed or scored)
FullStats(u) ==
    [ lessons_completed |-> Cardinality(CompletedDocs(u)),
      beginner_lessons |->
          Cardinality({ i \in CompletedDocs(u) :
                            lessons[lesson_progress[i].lesson_id].difficulty = "beginner" }),
      difficulty_variety |->
          Cardinality({ lessons[lesson_progress[i].lesson_id].difficulty : i \in CompletedDocs(u) }),
      streak_days |-> users[u].streak_days,
      perfect_quiz_score |->
          Cardinality({ i \in 1..Len(quiz_attempts) :
                            /\ quiz_attempts[i].user_id = u
                            /\ quiz_attempts[i].is_completed
                            /\ quiz_attempts[i].score = quiz_attempts[i].max_score }) ]

\* the request of handler h has completed a lesson and ended its pass with success
PassEnded(h) ==
    /\ pc[h] = "done" /\ frame[h].op = "complete_lesson"
    /\ frame[h].changed /\ frame[h].response = "success"

\* C11: a criterion on any named metric is satisfied when stats[metric] >=
\* threshold: when the pass of a qualifying event has ended, every active
\* achievement whose criteria are all on named metrics and all reached by the
\* learner's recomputed statistics has been granted.
C11_EveryMetricGrants ==
    \A h \in Handlers : \A i \in 1..Len(achievements) :
        LET a == achievements[i]
            u == frame[h].user_id
        IN  ( /\ PassEnded(h)
              /\ a.is_active
              /\ DOMAIN a.criteria \subseteq DOMAIN FullStats(u)
              /\ \A metric \in DOMAIN a.criteria : FullStats(u)[metric] >= a.criteria[metric] )
                => HasRecord(u, a.id)

\* C12: an achievement whose criteria name a metric the evaluator does not know
\* is not earned and never a crash: it has no record and no credit, and the
\* request whose pass met it ends with success.
C12_UnknownMetricNotEarned ==
    /\ \A u \in Users : \A i \in 1..Len(achievements) :
           (DOMAIN achievements[i].criteria \ DOMAIN FullStats(u) # {})
               => /\ ~HasRecord(u, achievements[i].id)
                  /\ achievement_awards[u][achievements[i].id] = 0
    /\ \A h \in Handlers :
           (pc[h] = "done" /\ frame[h].op = "complete_lesson" /\ frame[h].lesson_id \in DOMAIN lessons)
               => frame[h].response = "success"

\* the LessonProgress documents of the pair handler h works on
RecordsOf(h) ==
    { lesson_progress[i] :
          i \in MatchProgress(lesson_progress, frame[h].user_id, frame[h].lesson_id) }

\* handler h holds an ended request of operation op on an existing lesson
Ended(h, op) ==
    pc[h] = "done" /\ frame[h].op = op /\ frame[h].lesson_id \in DOMAIN lessons

\* the stored documents and the awards made from them
stores == << users, lesson_progress, user_achievements, lesson_awards, achievement_awards >>

\* C13: start_lesson for an existing lesson returns success and leaves exactly
\* one record for (learner, lesson), also when it runs concurrently with
\* another start_lesson or a complete_lesson for the same pair.
C13_StartLessonSucceeds ==
    \A h \in Handlers :
        Ended(h, "start_lesson")
            => /\ frame[h].response = "success"
               /\ Cardinality(MatchProgress(lesson_progress, frame[h].user_id,
                                            frame[h].lesson_id)) = 1

\* C14: when complete_lesson's update finds no record for (learner, lesson) it
\* leaves one record, completed with completed_at set, and goes on to the
\* award; the award credits the lesson's points_reward in one increment and
\* goes on to the achievement pass; lesson points are credited by no other step.
C14_UpsertIsCompletionTransition ==
    [][ /\ \A h \in Handlers :
               LET u == frame[h].user_id
                   l == frame[h].lesson_id
               IN  /\ ( /\ pc[h] = "update_progress" /\ pc'[h] # "update_progress"
                        /\ MatchProgress(lesson_progress, u, l) = {} )
                           => /\ pc'[h] = "award_lesson"
                              /\ Len(lesson_progress') = Len(lesson_progress) + 1
                              /\ \E i \in 1..Len(lesson_progress') :
                                     /\ MatchProgress(lesson_progress', u, l) = {i}
                                     /\ lesson_progress'[i].is_completed
                                     /\ lesson_progress'[i].completed_at # None
                              /\ UNCHANGED << users, lesson_awards >>
                   /\ (pc[h] = "award_lesson" /\ pc'[h] # "award_lesson")
                           => /\ pc'[h] = "count_lessons"
                              /\ users'[u].points = users[u].points + lessons[l].points_reward
                              /\ lesson_awards'[u][l] = lesson_awards[u][l] + 1
        /\ lesson_awards' # lesson_awards
               => \E h \in Handlers : pc[h] = "award_lesson" /\ pc'[h] = "count_lessons"
      ]_vars

\* the only request so far completed a lesson that had no record, was credited
\* once and has ended its achievement pass
C14_Witness ==
    \E h \in Handlers :
        /\ Ended(h, "complete_lesson") /\ frame[h].response = "success"
        /\ calls = 1
        /\ lesson_awards[frame[h].user_id][frame[h].lesson_id] = 1
        /\ users[frame[h].user_id].points >= lessons[frame[h].lesson_id].points_reward
        /\ \E d \in RecordsOf(h) : d.is_completed /\ "time_spent" \notin DOMAIN d

\* C15: over sequential requests, every ended start_lesson and complete_lesson
\* on an existing lesson reports success, and when a start_lesson followed by
\* a complete_lesson are the two requests made, the lesson's points_reward has
\* been credited exactly once and the pair has exactly one record, completed.
C15_StartThenComplete ==
    \A h \in Handlers :
        /\ (Ended(h, "start_lesson") \/ Ended(h, "complete_lesson"))
               => frame[h].response = "success"
        /\ ( /\ Ended(h, "complete_lesson")
             /\ calls = 2
             /\ \E d \in RecordsOf(h) : "time_spent" \in DOMAIN d )
               => /\ lesson_awards[frame[h].user_id][frame[h].lesson_id] = 1
                  /\ users[frame[h].user_id].points >= lessons[frame[h].lesson_id].points_reward
                  /\ Cardinality(MatchProgress(lesson_progress, frame[h].user_id,
                                               frame[h].lesson_id)) = 1
                  /\ \A d \in RecordsOf(h) : d.is_completed /\ d.completed_at # None

\* a start_lesson then a complete_lesson of the same pair have both ended
C15_Witness ==
    \E h \in Handlers :
        /\ Ended(h, "complete_lesson") /\ frame[h].response = "success"
        /\ calls = 2
        /\ \E d \in RecordsOf(h) : "time_spent" \in DOMAIN d /\ d.is_completed
        /\ lesson_awards[frame[h].user_id][frame[h].lesson_id] = 1

\* C16: a start_lesson or complete_lesson request whose lesson id does not
\* exist is answered NotFound at once, so it never reaches a write or the
\* achievement pass, and the step that answers it changes no stored document
\* and credits nothing.
C16_NotFoundChangesNothing ==
    [][ \A h \in Handlers :
            (frame'[h].op \in {"start_lesson", "complete_lesson"}
                 /\ frame'[h].lesson_id \notin DOMAIN lessons)
                => /\ pc'[h] = "done"
                   /\ frame'[h].response = "not_found"
                   /\ (calls' # calls \/ frame'[h] # frame[h]) => UNCHANGED stores
      ]_vars

\* two requests were made, the last a start_lesson answered NotFound, and
\* nothing is stored or credited
C16_Witness ==
    /\ calls = 2
    /\ \E h \in Handlers :
           /\ pc[h] = "done" /\ frame[h].response = "not_found"
           /\ frame[h].op = "start_lesson"
           /\ frame[h].lesson_id \notin DOMAIN lessons
    /\ lesson_progress = << >>
    /\ \A u \in Users : users[u].points = 0

\* C20: at most one LessonProgress record per (learner, lesson) and at most one
\* UserAchievement record per (learner, achievement), in every reachable state
\* of concurrent start_lesson, complete_lesson and check_achievements.
C20_UniqueRecords ==
    /\ \A u \in Users : \A l \in LessonIds :
           Cardinality(MatchProgress(lesson_progress, u, l)) <= 1
    /\ \A u \in Users : \A a \in AchievementIds : NumRecords(u, a) <= 1

\* a start_lesson lost the race for its pair: its insert was rejected and the
\* pair has one record
C20_Witness ==
    \E h \in Handlers :
        /\ Ended(h, "start_lesson") /\ frame[h].response = "error"
        /\ Cardinality(MatchProgress(lesson_progress, frame[h].user_id,
                                     frame[h].lesson_id)) = 1

\* ------------------------------------------------------------------ quizzes

\* a QuizQuestion (its text, options and explanation are read by no handler)
QuizQuestion(type, answer, pts) ==
    [question_type |-> type, correct_answer |-> answer, points |-> pts]

\* the question lists a QuizCreate body carries: none, one question with the
\* default points, two questions
QuestionSets ==
    { << >>,
      << QuizQuestion("true_false", "true", 1) >>,
      << QuizQuestion("multiple_choice", "var name string", 10),
         QuizQuestion("free_text", "\"\"", 15) >> }

\* max_points left at the default of the model class
QuizMaxPoints_Default(questions) == 0

\* sum(q.points for q in questions)
RECURSIVE QuizMaxPoints(_)
QuizMaxPoints(questions) ==
    IF questions = << >> THEN 0
    ELSE Head(questions).points + QuizMaxPoints(Tail(questions))

\* the Quiz document stored for a question list
NewQuiz(id, lesson_id, created_by, questions) ==
    [id |-> id, lesson_id |-> lesson_id, created_by |-> created_by, questions |-> questions,
     passing_score |-> 70, is_active |-> TRUE, max_points |-> QuizMaxPoints(questions)]

\* the quizzes collection after init_database: one quiz per seeded lesson
seeded_quizzes ==
    << NewQuiz(1, "l1", "t1", << QuizQuestion("multiple_choice", "Google", 10),
                                 QuizQuestion("true_false", "true", 5) >>),
       NewQuiz(2, "l2", "t1", << QuizQuestion("true_false", "true", 10) >>) >>

\* a quiz id that no stored quiz has
MissingQuizId == 0

\* the ids a request can name: the missing one and those of the quizzes the
\* collection can come to hold
QuizIds == MissingQuizId .. (Len(seeded_quizzes) + MaxCalls)

\* quizzes.find_one({"id": quiz_id}): the matching documents
MatchQuiz(coll, quiz_id) == { i \in 1..Len(coll) : coll[i].id = quiz_id }

\* a QuizAttempt that keeps the default max_score of the model class
NewAttempt_DefaultMaxScore(id, u, quiz_id, max_points) ==
    [id |-> id, user_id |-> u, quiz_id |-> quiz_id, answers |-> << >>, score |-> 0,
     max_score |-> 0, completed_at |-> None, is_completed |-> FALSE]

\* QuizAttempt(user_id, quiz_id, max_score=quiz["max_points"]); answers is the
\* empty dict, score 0.0; max_points is an int, held as a float of equal value
NewAttempt(id, u, quiz_id, max_points) ==
    [id |-> id, user_id |-> u, quiz_id |-> quiz_id, answers |-> << >>, score |-> 0,
     max_score |-> max_points, completed_at |-> None, is_completed |-> FALSE]

\* quiz_for_student: a copy of the questions with every correct_answer blanked
Redact(questions) ==
    [i \in 1..Len(questions) |-> [questions[i] EXCEPT !.correct_answer = ""]]

\* what start_quiz_attempt returns: the attempt; quiz_for_student is dropped
StartQuizResponse(attempt, quiz_for_student) == attempt

\* the questions a response body carries
ReturnedQuestions(body) ==
    IF "questions" \in DOMAIN body THEN body.questions ELSE << >>

\* what the quiz handlers leave alone
lesson_vars ==
    << now, users, lesson_progress, user_achievements, achievements,
       lesson_awards, achievement_awards >>

\* POST /quizzes: the role test, then quizzes.insert_one
CreateQuiz(h, u, l, questions) ==
    /\ NextFree(h)
    /\ calls < MaxCalls
    /\ calls' = calls + 1
    /\ pc' = [pc EXCEPT ![h] = "done"]
    /\ IF Role(u) \notin {"teacher", "admin"}
       THEN /\ frame' = [frame EXCEPT ![h] = [IdleFrame EXCEPT !.op = "create_quiz",
                                                              !.user_id = u,
                                                              !.response = "forbidden"]]
            /\ UNCHANGED quizzes
       ELSE LET new_quiz == NewQuiz(Len(quizzes) + 1, l, u, questions)
            IN  /\ quizzes' = Append(quizzes, new_quiz)
                /\ frame' = [frame EXCEPT ![h] = [IdleFrame EXCEPT !.op = "create_quiz",
                                                                  !.user_id = u,
                                                                  !.quiz_id = new_quiz.id,
                                                                  !.body = <<new_quiz>>,
                                                                  !.response = "success"]]
    /\ UNCHANGED quiz_attempts
    /\ UNCHANGED lesson_vars
    /\ UNCHANGED authoring_vars

\* POST /quizzes/{quiz_id}/attempt arrives; quizzes.find_one decides 404
StartQuiz_FindQuiz(h, u, quiz_id) ==
    /\ NextFree(h)
    /\ quiz_id = MissingQuizId \/ MatchQuiz(quizzes, quiz_id) # {}
    /\ calls < MaxCalls
    /\ calls' = calls + 1
    /\ IF MatchQuiz(quizzes, quiz_id) # {}
       THEN /\ pc' = [pc EXCEPT ![h] = "insert_attempt"]
            /\ frame' = [frame EXCEPT ![h] =
                            [IdleFrame EXCEPT !.op = "start_quiz_attempt", !.user_id = u,
                                              !.quiz_id = quiz_id,
                                              !.quiz = <<quizzes[Min(MatchQuiz(quizzes, quiz_id))]>>]]
       ELSE /\ pc' = [pc EXCEPT ![h] = "done"]
            /\ frame' = [frame EXCEPT ![h] =
                            [IdleFrame EXCEPT !.op = "start_quiz_attempt", !.user_id = u,
                                              !.quiz_id = quiz_id,
                                              !.response = "not_found"]]
    /\ UNCHANGED quiz_vars
    /\ UNCHANGED lesson_vars
    /\ UNCHANGED authoring_vars

\* quiz_attempts.insert_one, the redacted copy, return attempt
StartQuiz_InsertAttempt(h) ==
    /\ pc[h] = "insert_attempt"
    /\ LET quiz == frame[h].quiz[1]
           attempt == NewAttempt(Len(quiz_attempts) + 1, frame[h].user_id,
                                 frame[h].quiz_id, quiz.max_points)
           quiz_for_student == [quiz EXCEPT !.questions = Redact(quiz.questions)]
       IN  /\ quiz_attempts' = Append(quiz_attempts, attempt)
           /\ frame' = [frame EXCEPT ![h].body = <<StartQuizResponse(attempt, quiz_for_student)>>,
                                     ![h].response = "success"]
    /\ pc' = [pc EXCEPT ![h] = "done"]
    /\ UNCHANGED quizzes
    /\ UNCHANGED << calls >>
    /\ UNCHANGED lesson_vars
    /\ UNCHANGED authoring_vars

\* the quizzes collection empty or seeded, the default achievements
InitQuiz == InitWith({default_achievements}, {<< >>, seeded_quizzes}, {<< >>}, {<< >>})

\* GET /lessons/{lesson_id}/quizzes for any authenticated caller: the active
\* quizzes of the lesson, each returned as Quiz(**quiz) with its questions
GetLessonQuizzes(h, u, l) ==
    /\ NextFree(h)
    /\ calls < MaxCalls
    /\ calls' = calls + 1
    /\ pc' = [pc EXCEPT ![h] = "done"]
    /\ frame' = [frame EXCEPT ![h] =
                    [IdleFrame EXCEPT !.op = "get_lesson_quizzes", !.user_id = u,
                                      !.lesson_id = l, !.response = "success",
                                      !.body = SelectSeq(quizzes,
                                                         LAMBDA q : q.lesson_id = l /\ q.is_active)]]
    /\ UNCHANGED quiz_vars
    /\ UNCHANGED lesson_vars
    /\ UNCHANGED authoring_vars

\* concurrent quiz requests
NextQuiz ==
    \/ \E h \in Handlers, u \in Callers, l \in LessonIds, questions \in QuestionSets :
           CreateQuiz(h, u, l, questions)
    \/ \E h \in Handlers, u \in Callers, quiz_id \in QuizIds :
           StartQuiz_FindQuiz(h, u, quiz_id)
    \/ \E h \in Handlers : StartQuiz_InsertAttempt(h)
    \/ \E h \in Handlers, u \in Callers, l \in LessonIds : GetLessonQuizzes(h, u, l)

SpecQuiz == InitQuiz /\ [][NextQuiz]_vars

\* ------------------------------------------------------------------ quiz properties

\* the stored quiz with the id
StoredQuiz(quiz_id) == quizzes[Min(MatchQuiz(quizzes, quiz_id))]

\* every stored attempt is a fresh one whose max_score is its quiz's max_points
AttemptsFresh ==
    \A i \in 1..Len(quiz_attempts) :
        LET a == quiz_attempts[i]
        IN  /\ a.answers = << >> /\ a.score = 0 /\ ~a.is_completed
            /\ MatchQuiz(quizzes, a.quiz_id) # {}
            /\ a.max_score = StoredQuiz(a.quiz_id).max_points

\* a request for a quiz id that is not stored has been answered NotFound
MissingQuizAnswered ==
    \A h \in Handlers :
        (frame[h].op = "start_quiz_attempt" /\ MatchQuiz(quizzes, frame[h].quiz_id) = {})
            => pc[h] = "done" /\ frame[h].response = "not_found"

\* C17: start_quiz_attempt appends one new attempt (empty answers, score 0,
\* is_completed false) for the caller and the quiz, its max_score the quiz's
\* max_points, and answers success; for a quiz id that is not stored it
\* answers NotFound and creates no attempt; no other step creates an attempt.
C17_AttemptCopiesMaxPoints ==
    [][ /\ AttemptsFresh'
        /\ MissingQuizAnswered'
        /\ \A h \in Handlers :
               /\ (pc[h] = "insert_attempt" /\ pc'[h] = "done")
                      => /\ frame'[h].response = "success"
                         /\ Len(quiz_attempts') = Len(quiz_attempts) + 1
                         /\ LET a == quiz_attempts'[Len(quiz_attempts')]
                            IN  /\ a.user_id = frame[h].user_id
                                /\ a.quiz_id = frame[h].quiz_id
                                /\ a.max_score = StoredQuiz(frame[h].quiz_id).max_points
                                /\ \A i \in 1..Len(quiz_attempts) : quiz_attempts[i].id # a.id
                         /\ SubSeq(quiz_attempts', 1, Len(quiz_attempts)) = quiz_attempts
               /\ (frame'[h].op = "start_quiz_attempt" /\ frame'[h].response = "not_found"
                       /\ calls' # calls)
                      => quiz_attempts' = quiz_attempts
        /\ quiz_attempts' # quiz_attempts
               => \E h \in Handlers : pc[h] = "insert_attempt" /\ pc'[h] = "done"
      ]_vars

\* an attempt on a quiz with points is stored while a request for a missing
\* quiz was answered NotFound
C17_Witness ==
    /\ \E i \in 1..Len(quiz_attempts) : quiz_attempts[i].max_score > 0
    /\ \E h \in Handlers :
           /\ pc[h] = "done" /\ frame[h].op = "start_quiz_attempt"
           /\ frame[h].response = "not_found"

\* C18: the question set returned to the caller of start_quiz_attempt is the
\* quiz's question set with every correct_answer blank, and the stored Quiz
\* document is unchanged.
C18_RedactedQuestionsReturned ==
    \A h \in Handlers :
        (pc[h] = "done" /\ frame[h].op = "start_quiz_attempt" /\ frame[h].response = "success")
            => /\ ReturnedQuestions(frame[h].body[1]) = Redact(StoredQuiz(frame[h].quiz_id).questions)
               /\ \A i \in 1..Len(ReturnedQuestions(frame[h].body[1])) :
                      ReturnedQuestions(frame[h].body[1])[i].correct_answer = ""
               /\ StoredQuiz(frame[h].quiz_id) = frame[h].quiz[1]

\* the sum of the points of the first n questions
RECURSIVE SumOfPoints(_, _)
SumOfPoints(questions, n) ==
    IF n = 0 THEN 0 ELSE SumOfPoints(questions, n - 1) + questions[n].points

\* C19: every stored Quiz has max_points equal to the sum of the points of its
\* questions, in every reachable state: seeded quizzes and quizzes made by
\* create_quiz (no operation changes the questions of a stored quiz).
C19_MaxPointsIsSum ==
    \A i \in 1..Len(quizzes) :
        quizzes[i].max_points = SumOfPoints(quizzes[i].questions, Len(quizzes[i].questions))

\* a seeded quiz and a quiz made by create_quiz, each with several questions
C19_Witness ==
    /\ \E i \in 1..Len(quizzes) : quizzes[i] = seeded_quizzes[1] /\ quizzes[i].max_points = 15
    /\ \E h \in Handlers :
           /\ pc[h] = "done" /\ frame[h].op = "create_quiz" /\ frame[h].response = "success"
           /\ Len(StoredQuiz(frame[h].quiz_id).questions) = 2
           /\ StoredQuiz(frame[h].quiz_id).max_points = 25

\* ------------------------------------------------------------------ classes

\* the Class document create_class stores; the class_code, eight random
\* characters under a unique index, is the code of no other class
NewClass(id, teacher_id) ==
    [id |-> id, teacher_id |-> teacher_id, students |-> << >>, class_code |-> id + 100]

\* a classes collection that holds two classes made earlier by the teacher
existing_classes == << NewClass(1, "t1"), NewClass(2, "t1") >>

\* that collection after the student joined the first class
joined_classes == << [NewClass(1, "t1") EXCEPT !.students = << "u1" >>], NewClass(2, "t1") >>

\* a class id no stored class has, and a class code no stored class has
MissingClassId == 0

WrongClassCode == 0

\* the ids and codes a join request can name
ClassIds == MissingClassId .. (Len(existing_classes) + MaxCalls)

ClassCodes == {WrongClassCode} \cup { NewClass(id, "t1").class_code : id \in ClassIds \ {MissingClassId} }

\* classes.find_one({"id": class_id, "class_code": class_code}): the matching documents
MatchClass(coll, class_id, class_code) ==
    { i \in 1..Len(coll) : coll[i].id = class_id /\ coll[i].class_code = class_code }

\* current_user.id in class_doc.get("students", [])
Enrolled(class_doc, u) == \E k \in 1..Len(class_doc.students) : class_doc.students[k] = u

\* how often a student id is in the students list of a class
Enrolments(class_doc, u) ==
    Cardinality({ k \in 1..Len(class_doc.students) : class_doc.students[k] = u })

\* POST /classes: the role test, then classes.insert_one
CreateClass(h, u) ==
    /\ NextFree(h)
    /\ calls < MaxCalls
    /\ calls' = calls + 1
    /\ pc' = [pc EXCEPT ![h] = "done"]
    /\ IF Role(u) \notin {"teacher", "admin"}
       THEN /\ frame' = [frame EXCEPT ![h] = [IdleFrame EXCEPT !.op = "create_class",
                                                              !.user_id = u,
                                                              !.response = "forbidden"]]
            /\ UNCHANGED classes
       ELSE LET new_class == NewClass(Len(classes) + 1, u)
            IN  /\ classes' = Append(classes, new_class)
                /\ frame' = [frame EXCEPT ![h] = [IdleFrame EXCEPT !.op = "create_class",
                                                                  !.user_id = u,
                                                                  !.class_id = new_class.id,
                                                                  !.response = "success"]]
    /\ UNCHANGED created_lessons
    /\ UNCHANGED quiz_vars
    /\ UNCHANGED lesson_vars

\* POST /classes/{class_id}/join arrives: the role test, classes.find_one, the
\* test of the students list of the document it returned
JoinClass_FindClass(h, u, class_id, class_code) ==
    /\ NextFree(h)
    /\ class_id = MissingClassId \/ \E i \in 1..Len(classes) : classes[i].id = class_id
    /\ class_code = WrongClassCode \/ \E i \in 1..Len(classes) : classes[i].class_code = class_code
    /\ calls < MaxCalls
    /\ calls' = calls + 1
    /\ LET request == [IdleFrame EXCEPT !.op = "join_class", !.user_id = u, !.class_id = class_id]
           found == MatchClass(classes, class_id, class_code)
       IN  IF Role(u) # "student"
           THEN /\ pc' = [pc EXCEPT ![h] = "done"]
                /\ frame' = [frame EXCEPT ![h] = [request EXCEPT !.response = "forbidden"]]
           ELSE IF found = {}
           THEN /\ pc' = [pc EXCEPT ![h] = "done"]
                /\ frame' = [frame EXCEPT ![h] = [request EXCEPT !.response = "not_found"]]
           ELSE IF Enrolled(classes[Min(found)], u)
           THEN /\ pc' = [pc EXCEPT ![h] = "done"]
                /\ frame' = [frame EXCEPT ![h] = [request EXCEPT !.response = "bad_request"]]
           ELSE /\ pc' = [pc EXCEPT ![h] = "push_student"]
                /\ frame' = [frame EXCEPT ![h] = request]
    /\ UNCHANGED authoring_vars
    /\ UNCHANGED quiz_vars
    /\ UNCHANGED lesson_vars

\* classes.update_one({"id": class_id}, {"$push": {"students": current_user.id}})
JoinClass_Push(h) ==
    /\ pc[h] = "push_student"
    /\ LET i == Min({ j \in 1..Len(classes) : classes[j].id = frame[h].class_id })
       IN  classes' = [classes EXCEPT ![i].students = Append(@, frame[h].user_id)]
    /\ pc' = [pc EXCEPT ![h] = "done"]
    /\ frame' = [frame EXCEPT ![h].response = "success"]
    /\ UNCHANGED << calls, created_lessons >>
    /\ UNCHANGED quiz_vars
    /\ UNCHANGED lesson_vars

\* concurrent class requests
NextClass ==
    \/ \E h \in Handlers, u \in Callers : CreateClass(h, u)
    \/ \E h \in Handlers, u \in Callers, class_id \in ClassIds, class_code \in ClassCodes :
           JoinClass_FindClass(h, u, class_id, class_code)
    \/ \E h \in Handlers : JoinClass_Push(h)

\* the classes collection empty, holding classes, holding them with a student
InitClass ==
    InitWith({default_achievements}, {<< >>}, {<< >>, existing_classes, joined_classes}, {<< >>})

SpecClass == InitClass /\ [][NextClass]_vars

\* ------------------------------------------------------------------ lesson authoring

\* a LessonCreate body has no points_reward: the Lesson keeps the default
DefaultPointsReward == 10

\* POST /lessons: the role test, then lessons.insert_one
CreateLesson(h, u, difficulty) ==
    /\ NextFree(h)
    /\ calls < MaxCalls
    /\ calls' = calls + 1
    /\ pc' = [pc EXCEPT ![h] = "done"]
    /\ IF Role(u) \notin {"teacher", "admin"}
       THEN /\ frame' = [frame EXCEPT ![h] = [IdleFrame EXCEPT !.op = "create_lesson",
                                                              !.user_id = u,
                                                              !.response = "forbidden"]]
            /\ UNCHANGED created_lessons
       ELSE /\ created_lessons' =
                   Append(created_lessons,
                          [id |-> Len(created_lessons) + 1, created_by |-> u,
                           difficulty |-> difficulty, points_reward |-> DefaultPointsReward])
            /\ frame' = [frame EXCEPT ![h] = [IdleFrame EXCEPT !.op = "create_lesson",
                                                              !.user_id = u,
                                                              !.response = "success"]]
    /\ UNCHANGED classes
    /\ UNCHANGED quiz_vars
    /\ UNCHANGED lesson_vars

\* ------------------------------------------------------------------ accounts

\* the e-mail addresses a registration can carry: one per account, taken or new
NewAccounts == {"u2"}

Accounts == Callers \cup NewAccounts

\* the login that also counts a day of the streak
SetLastLogin_BumpsStreak(doc, t) ==
    [doc EXCEPT !.last_login = <<t>>, !.streak_days = @ + 1]

\* {"$set": {"last_login": datetime.utcnow()}}
SetLastLogin(doc, t) == [doc EXCEPT !.last_login = <<t>>]

\* what the account handlers leave alone
account_frame ==
    << now, lesson_progress, user_achievements, achievements, lesson_awards,
       achievement_awards >>

\* POST /auth/register arrives; get_user_by_email decides "Email already registered"
Register_FindEmail(h, e) ==
    /\ NextFree(h)
    /\ calls < MaxCalls
    /\ calls' = calls + 1
    /\ IF e \in DOMAIN users
       THEN /\ pc' = [pc EXCEPT ![h] = "done"]
            /\ frame' = [frame EXCEPT ![h] = [IdleFrame EXCEPT !.op = "register", !.user_id = e,
                                                              !.response = "bad_request"]]
       ELSE /\ pc' = [pc EXCEPT ![h] = "insert_user"]
            /\ frame' = [frame EXCEPT ![h] = [IdleFrame EXCEPT !.op = "register", !.user_id = e]]
    /\ UNCHANGED users
    /\ UNCHANGED account_frame
    /\ UNCHANGED quiz_vars
    /\ UNCHANGED authoring_vars

\* create_user: users.insert_one under the unique index on email
Register_Insert(h) ==
    /\ pc[h] = "insert_user"
    /\ LET e == frame[h].user_id
       IN  IF e \in DOMAIN users
           THEN /\ frame' = [frame EXCEPT ![h].response = "error"]
                /\ UNCHANGED users
           ELSE /\ frame' = [frame EXCEPT ![h].response = "success"]
                /\ users' = [x \in DOMAIN users \cup {e} |->
                                IF x \in DOMAIN users THEN users[x] ELSE NewUser(FALSE)]
    /\ pc' = [pc EXCEPT ![h] = "done"]
    /\ UNCHANGED calls
    /\ UNCHANGED account_frame
    /\ UNCHANGED quiz_vars
    /\ UNCHANGED authoring_vars

\* POST /auth/login arrives; authenticate_user finds the user and verifies the password
Login_Authenticate(h, e, password_ok) ==
    /\ NextFree(h)
    /\ calls < MaxCalls
    /\ calls' = calls + 1
    /\ IF e \notin DOMAIN users \/ ~password_ok
       THEN /\ pc' = [pc EXCEPT ![h] = "done"]
            /\ frame' = [frame EXCEPT ![h] = [IdleFrame EXCEPT !.op = "login", !.user_id = e,
                                                              !.response = "unauthorized"]]
       ELSE /\ pc' = [pc EXCEPT ![h] = "update_last_login"]
            /\ frame' = [frame EXCEPT ![h] = [IdleFrame EXCEPT !.op = "login", !.user_id = e]]
    /\ UNCHANGED users
    /\ UNCHANGED account_frame
    /\ UNCHANGED quiz_vars
    /\ UNCHANGED authoring_vars

\* authenticate_user's update of last_login, then login_user's test of is_verified
Login_UpdateLastLogin(h) ==
    /\ pc[h] = "update_last_login"
    /\ LET e == frame[h].user_id
       IN  /\ users' = [users EXCEPT ![e] = SetLastLogin(@, now)]
           /\ frame' = [frame EXCEPT ![h].response =
                                         IF users[e].is_verified THEN "success" ELSE "unauthorized"]
    /\ pc' = [pc EXCEPT ![h] = "done"]
    /\ UNCHANGED calls
    /\ UNCHANGED account_frame
    /\ UNCHANGED quiz_vars
    /\ UNCHANGED authoring_vars

\* GET /auth/verify-email: users.update_one({"email": e}, {"$set": {"is_verified": True}});
\* modified_count is 0 for an unknown e-mail and for a verified user
VerifyEmail(h, e) ==
    /\ NextFree(h)
    /\ calls < MaxCalls
    /\ calls' = calls + 1
    /\ pc' = [pc EXCEPT ![h] = "done"]
    /\ IF e \in DOMAIN users /\ ~users[e].is_verified
       THEN /\ users' = [users EXCEPT ![e].is_verified = TRUE]
            /\ frame' = [frame EXCEPT ![h] = [IdleFrame EXCEPT !.op = "verify_email", !.user_id = e,
                                                              !.response = "success"]]
       ELSE /\ UNCHANGED users
            /\ frame' = [frame EXCEPT ![h] = [IdleFrame EXCEPT !.op = "verify_email", !.user_id = e,
                                                              !.response = "bad_request"]]
    /\ UNCHANGED account_frame
    /\ UNCHANGED quiz_vars
    /\ UNCHANGED authoring_vars

\* ------------------------------------------------------------------ the platform

\* no request is in flight
NoneInFlight == \A g \in Handlers : Free(g)

\* every operation that writes to a collection, one request at a time
NextPlatform ==
    \/ Tick
    \/ Step
    \/ \E h \in Handlers : StartQuiz_InsertAttempt(h)
    \/ \E h \in Handlers : JoinClass_Push(h)
    \/ \E h \in Handlers : Register_Insert(h)
    \/ \E h \in Handlers : Login_UpdateLastLogin(h)
    \/ \E h \in Handlers, u \in Users, l \in LessonIds \cup MissingLessonIds :
           NoneInFlight /\ CompleteLesson_FindLesson(h, u, l)
    \/ \E h \in Handlers, u \in Users, l \in LessonIds \cup MissingLessonIds :
           NoneInFlight /\ StartLesson_FindLesson(h, u, l)
    \/ \E h \in Handlers, u \in Callers, l \in LessonIds, questions \in QuestionSets :
           NoneInFlight /\ CreateQuiz(h, u, l, questions)
    \/ \E h \in Handlers, u \in Callers, quiz_id \in QuizIds :
           NoneInFlight /\ StartQuiz_FindQuiz(h, u, quiz_id)
    \/ \E h \in Handlers, u \in Callers, l \in LessonIds :
           NoneInFlight /\ GetLessonQuizzes(h, u, l)
    \/ \E h \in Handlers, u \in Callers : NoneInFlight /\ CreateClass(h, u)
    \/ \E h \in Handlers, u \in Callers, class_id \in ClassIds, class_code \in ClassCodes :
           NoneInFlight /\ JoinClass_FindClass(h, u, class_id, class_code)
    \/ \E h \in Handlers, u \in Callers, difficulty \in {"beginner", "advanced"} :
           NoneInFlight /\ CreateLesson(h, u, difficulty)
    \/ \E h \in Handlers, e \in Accounts : NoneInFlight /\ Register_FindEmail(h, e)
    \/ \E h \in Handlers, e \in Accounts, password_ok \in BOOLEAN :
           NoneInFlight /\ Login_Authenticate(h, e, password_ok)
    \/ \E h \in Handlers, e \in Accounts : NoneInFlight /\ VerifyEmail(h, e)

\* a deployment after init_database, with a class
InitPlatform == InitWith({default_achievements}, {seeded_quizzes}, {existing_classes}, {<< >>})

SpecPlatform == InitPlatform /\ [][NextPlatform]_vars

\* ------------------------------------------------------------------ platform properties

\* this step is the lesson award of a complete_lesson request of user u
LessonAwardStep(u) ==
    \E h \in Handlers :
        /\ frame[h].user_id = u /\ frame[h].op = "complete_lesson"
        /\ pc[h] = "award_lesson" /\ pc'[h] = "count_lessons"
        /\ users'[u].points = users[u].points + lessons[frame[h].lesson_id].points_reward

\* this step is the achievement award of a check_achievements pass of user u
AchievementAwardStep(u) ==
    \E h \in Handlers :
        /\ frame[h].user_id = u /\ frame[h].op = "complete_lesson"
        /\ pc[h] = "award_points" /\ pc'[h] = "loop"
        /\ users'[u].points = users[u].points
                                  + frame[h].available_achievements[frame[h].idx].points_reward

\* C21: the point balance of a user changes only in the lesson award of
\* complete_lesson and the achievement award of check_achievements, streak_days
\* of a user changes in no step, and a registered user starts with points 0
\* and streak_days 0: registration, login, e-mail verification, start_lesson,
\* start_quiz_attempt, create_quiz, create_class, create_lesson and join_class
\* leave points and streak_days of every user as they are.
C21_PointsOnlyByAwards ==
    [][ /\ \A u \in DOMAIN users :
               /\ u \in DOMAIN users'
               /\ users'[u].streak_days = users[u].streak_days
               /\ users'[u].points # users[u].points
                      => LessonAwardStep(u) \/ AchievementAwardStep(u)
        /\ \A u \in DOMAIN users' \ DOMAIN users :
               users'[u].points = 0 /\ users'[u].streak_days = 0
      ]_vars

\* the learner logged in and was credited points, with the streak untouched
C21_Witness ==
    /\ users["u1"].last_login # None
    /\ users["u1"].points > 0
    /\ users["u1"].streak_days = 0

\* ------------------------------------------------------------------ order of the pass

\* one set of achievements in every order achievements.find can return it
OrderCatalogs ==
    LET base == <<first_lesson, combo, two_lessons>>
    IN  { [i \in 1..Len(base) |-> base[p[i]]] : p \in Permutations(1..Len(base)) }

InitOrder == InitWith(OrderCatalogs, {<< >>}, {<< >>}, {<< >>})

\* sequential requests over every order of the achievements collection
SpecOrder == InitOrder /\ [][NextSeq]_vars

\* the achievements of the collection, as a set
AchievementSet == { achievements[i] : i \in 1..Len(achievements) }

\* the ids of the achievements the learner's count of completed lessons earns
QualifyingIds(u) ==
    { a.id : a \in { b \in AchievementSet :
                         b.is_active /\ Earned(b.criteria, CountCompleted(lesson_progress, u)) } }

\* the sum of the rewards of a set of achievements
RECURSIVE SumRewards(_)
SumRewards(S) ==
    IF S = {} THEN 0
    ELSE LET a == CHOOSE x \in S : TRUE
         IN  a.points_reward + SumRewards(S \ {a})

\* C22: the result of a pass does not depend on the order of the candidates:
\* whatever the order of the achievements collection, once the learner's
\* request has ended the learner's UserAchievement records are one per
\* achievement the learner's completed lessons earn, and the balance is the
\* lesson awards plus the rewards of exactly these achievements.
C22_PassOrderIndependent ==
    \A u \in Users :
        NoneInFlight =>
            /\ { user_achievements[i].achievement_id :
                     i \in { j \in 1..Len(user_achievements) : user_achievements[j].user_id = u } }
                   = QualifyingIds(u)
            /\ \A a \in QualifyingIds(u) : NumRecords(u, a) = 1
            /\ users[u].points
                   = SumLessonPoints(u, LessonIds)
                         + SumRewards({ a \in AchievementSet : a.id \in QualifyingIds(u) })

\* a pass that granted two achievements at once has ended, in a collection whose
\* order is not the one the achievements were defined in
C22_Witness ==
    /\ NoneInFlight
    /\ achievements[1] # first_lesson
    /\ HasRecord("u1", first_lesson.id) /\ HasRecord("u1", combo.id)
    /\ users["u1"].points >= first_lesson.points_reward + combo.points_reward

\* ------------------------------------------------------------------ quiz submission

\* quizzes whose scores meet the passing percentage exactly (7 of 10 at 70), at
\* another percentage, and a quiz without questions
edge_quizzes ==
    << NewQuiz(1, "l1", "t1", << QuizQuestion("multiple_choice", "Google", 7),
                                 QuizQuestion("free_text", "true", 3) >>),
       [NewQuiz(2, "l2", "t1", << QuizQuestion("true_false", "true", 10),
                                  QuizQuestion("multiple_choice", "Google", 10) >>)
            EXCEPT !.passing_score = 50],
       NewQuiz(3, "l2", "t1", << >>) >>

\* the quiz_attempts collections after one start_quiz_attempt on quiz 1 or 2
started_attempts ==
    { << NewAttempt(1, "u1", q, m) >> : q \in {1, 2}, m \in {10, 15, 20} }

\* submitted answers, by question position; a question may have no answer
AnswerSets ==
    { << >>, << "Google" >>, << "Google", "true" >>, << "Google", " true " >>,
      << "true", "Google" >>, << "true", "google" >>, << "false", "true" >> }

\* an attempt id no stored attempt has
MissingAttemptId == 0

AttemptIds == MissingAttemptId .. (1 + MaxCalls)

\* str.strip() on the submitted answers
Trim(answer) == IF answer = " true " THEN "true" ELSE answer

\* the type-aware comparison of a submitted answer with correct_answer
Matches(question, answer) ==
    IF question.question_type \in {"free_text", "code_completion"}
    THEN Trim(answer) = Trim(question.correct_answer)
    ELSE answer = question.correct_answer

\* the Scorer's score: the points of the questions answered correctly, summed
\* over the question list
RECURSIVE Score(_, _, _)
Score(questions, answers, i) ==
    IF i > Len(questions) THEN 0
    ELSE (IF i \in DOMAIN answers /\ Matches(questions[i], answers[i])
          THEN questions[i].points ELSE 0)
         + Score(questions, answers, i + 1)

\* the percentage computed with the division done first, in whole numbers
Passed_DividesFirst(score, max_score, passing_score) ==
    IF max_score = 0 THEN FALSE
    ELSE (score \div max_score) * 100 >= passing_score

\* (score / maxScore * 100) >= passing_score, false for a quiz of zero points;
\* passing_score is a whole number, so the whole part of the percentage decides
Passed(score, max_score, passing_score) ==
    IF max_score = 0 THEN FALSE
    ELSE (score * 100) \div max_score >= passing_score

\* the Scorer: (score, maxScore, passed) for a quiz and submitted answers
ScoreQuiz(quiz, answers) ==
    LET score == Score(quiz.questions, answers, 1)
        max_score == QuizMaxPoints(quiz.questions)
    IN  [score |-> score, max_score |-> max_score,
         passed |-> Passed(score, max_score, quiz.passing_score)]

\* quiz_attempts.find_one({"id": attempt_id}): the matching documents
MatchAttempt(coll, attempt_id) == { i \in 1..Len(coll) : coll[i].id = attempt_id }

\* the guard of the write left out
AlreadyCompleted_NoGuard(attempt) == FALSE

\* the guard of the write of a submission: the attempt is completed
AlreadyCompleted(attempt) == attempt.is_completed

\* submitQuizAttempt arrives: the attempt and its quiz are read; NotFound
\* when the attempt does not exist
Submit_FindAttempt(h, u, attempt_id, answers) ==
    /\ NextFree(h)
    /\ attempt_id = MissingAttemptId \/ MatchAttempt(quiz_attempts, attempt_id) # {}
    /\ calls < MaxCalls
    /\ calls' = calls + 1
    /\ LET request == [IdleFrame EXCEPT !.op = "submit_quiz_attempt", !.user_id = u,
                                        !.attempt_id = attempt_id, !.answers = answers]
       IN  IF MatchAttempt(quiz_attempts, attempt_id) = {}
           THEN /\ pc' = [pc EXCEPT ![h] = "done"]
                /\ frame' = [frame EXCEPT ![h] = [request EXCEPT !.response = "not_found"]]
           ELSE LET attempt == quiz_attempts[Min(MatchAttempt(quiz_attempts, attempt_id))]
                IN  /\ pc' = [pc EXCEPT ![h] = "write_attempt"]
                    /\ frame' = [frame EXCEPT ![h] =
                                    [request EXCEPT !.quiz_id = attempt.quiz_id,
                                                    !.quiz = <<quizzes[Min(MatchQuiz(quizzes, attempt.quiz_id))]>>]]
    /\ UNCHANGED quiz_vars
    /\ UNCHANGED authoring_vars
    /\ UNCHANGED lesson_vars

\* the conditional write of the submission: the answers, the Scorer's score,
\* completed_at and is_completed, unless the attempt is completed: Conflict
Submit_Write(h) ==
    /\ pc[h] = "write_attempt"
    /\ LET i == Min(MatchAttempt(quiz_attempts, frame[h].attempt_id))
           result == ScoreQuiz(frame[h].quiz[1], frame[h].answers)
       IN  IF AlreadyCompleted(quiz_attempts[i])
           THEN /\ frame' = [frame EXCEPT ![h].response = "conflict"]
                /\ UNCHANGED quiz_attempts
           ELSE /\ quiz_attempts' =
                       [quiz_attempts EXCEPT ![i] =
                           [@ EXCEPT !.answers = frame[h].answers, !.score = result.score,
                                     !.completed_at = <<now>>, !.is_completed = TRUE]]
                /\ frame' = [frame EXCEPT ![h].response = "success", ![h].body = <<result>>]
    /\ pc' = [pc EXCEPT ![h] = "done"]
    /\ UNCHANGED << calls, quizzes >>
    /\ UNCHANGED authoring_vars
    /\ UNCHANGED lesson_vars

\* the clock between submissions
TickSubmit ==
    /\ now < MaxTime
    /\ \E i \in 1..Len(quiz_attempts) : quiz_attempts[i].completed_at = <<now>>
    /\ now' = now + 1
    /\ UNCHANGED << users, lesson_progress, user_achievements, achievements,
                    pc, frame, calls, lesson_awards, achievement_awards >>
    /\ UNCHANGED quiz_vars
    /\ UNCHANGED authoring_vars

\* concurrent requests that start and submit attempts
NextSubmit ==
    \/ TickSubmit
    \/ \E h \in Handlers, u \in Users, quiz_id \in QuizIds : StartQuiz_FindQuiz(h, u, quiz_id)
    \/ \E h \in Handlers : StartQuiz_InsertAttempt(h)
    \/ \E h \in Handlers, u \in Users, attempt_id \in AttemptIds, answers \in AnswerSets :
           Submit_FindAttempt(h, u, attempt_id, answers)
    \/ \E h \in Handlers : Submit_Write(h)

\* quizzes stored, with or without a started attempt whose max_score is that
\* of its quiz
InitSubmit ==
    /\ InitWith({default_achievements}, {seeded_quizzes, edge_quizzes}, {<< >>},
                {<< >>} \cup started_attempts)
    /\ \A i \in 1..Len(quiz_attempts) :
           quiz_attempts[i].max_score
               = quizzes[Min(MatchQuiz(quizzes, quiz_attempts[i].quiz_id))].max_points

SpecSubmit == InitSubmit /\ [][NextSubmit]_vars

\* the points of the questions at the positions in S, summed
RECURSIVE SumPoints(_, _)
SumPoints(questions, S) ==
    IF S = {} THEN 0
    ELSE LET i == CHOOSE j \in S : TRUE
         IN  questions[i].points + SumPoints(questions, S \ {i})

\* the positions of the questions whose submitted answer matches correct_answer
MatchingQuestions(questions, answers) ==
    { i \in DOMAIN questions : i \in DOMAIN answers /\ Matches(questions[i], answers[i]) }

\* a submission that has been answered with the outcome r
Submitted(h, r) ==
    pc[h] = "done" /\ frame[h].op = "submit_quiz_attempt" /\ frame[h].response = r

\* C23: submitting a completed attempt is answered Conflict, and no step changes
\* a completed attempt: its score, answers and completed_at stay as they were
\* stored, so an attempt is scored at most once.
C23_ResubmitConflict ==
    [][ /\ \A i \in 1..Len(quiz_attempts) :
               quiz_attempts[i].is_completed
                   => /\ i \in 1..Len(quiz_attempts')
                      /\ quiz_attempts'[i] = quiz_attempts[i]
        /\ \A h \in Handlers :
               ( /\ pc[h] = "write_attempt" /\ pc'[h] = "done"
                 /\ quiz_attempts[Min(MatchAttempt(quiz_attempts, frame[h].attempt_id))].is_completed )
                   => frame'[h].response = "conflict" ]_vars

\* a submission of an attempt that was completed before was answered Conflict,
\* and the attempt holds the score and answers of the first submission
C23_Witness ==
    \E h \in Handlers, i \in 1..Len(quiz_attempts) :
        /\ Submitted(h, "conflict")
        /\ quiz_attempts[i].id = frame[h].attempt_id
        /\ quiz_attempts[i].is_completed
        /\ quiz_attempts[i].score > 0
        /\ quiz_attempts[i].answers # frame[h].answers

\* C24: for the quiz and the answers of every scored submission, score is the
\* sum of the points of the questions whose answer matches, maxScore the sum of
\* all question points, and passed holds exactly when
\* score * 100 >= passing_score * maxScore and maxScore > 0.
C24_ScoringRule ==
    \A h \in Handlers :
        Submitted(h, "success")
            => LET quiz == frame[h].quiz[1]
                   result == frame[h].body[1]
               IN  /\ result.score
                          = SumPoints(quiz.questions,
                                      MatchingQuestions(quiz.questions, frame[h].answers))
                   /\ result.max_score = SumPoints(quiz.questions, DOMAIN quiz.questions)
                   /\ result.passed
                          <=> ( /\ result.score * 100 >= quiz.passing_score * result.max_score
                                /\ result.max_score > 0 )

\* a submission was scored exactly at the passing percentage, short of the full
\* score, and passed
C24_Witness ==
    \E h \in Handlers :
        /\ Submitted(h, "success")
        /\ frame[h].body[1].passed
        /\ frame[h].body[1].score < frame[h].body[1].max_score
        /\ frame[h].body[1].score * 100
               = frame[h].quiz[1].passing_score * frame[h].body[1].max_score

\* a quiz without questions was submitted: maxScore 0, not passed
C24_WitnessDegenerate ==
    \E h \in Handlers :
        /\ Submitted(h, "success")
        /\ frame[h].body[1].max_score = 0
        /\ ~frame[h].body[1].passed

\* ------------------------------------------------------------------ concurrent passes

\* two achievements on the number of completed lessons, in both orders
RaceCatalogs == { <<first_lesson, two_lessons>>, <<two_lessons, first_lesson>> }

InitRace == InitWith(RaceCatalogs, {<< >>}, {<< >>}, {<< >>})

\* concurrent requests of one learner over these achievements
SpecRace == InitRace /\ [][Next]_vars

\* C25: once every complete_lesson handler of the learner has finished, every
\* active achievement whose lessons_completed threshold is at most the learner's
\* number of completed lessons has a UserAchievement record for the learner.
C25_AllQualifyingGranted ==
    NoneInFlight => \A u \in Users : \A a \in QualifyingIds(u) : HasRecord(u, a)

\* ------------------------------------------------------------------ completion is kept

\* the learner's record for the lesson exists and is completed
Completed(coll, u, l) ==
    \E i \in MatchProgress(coll, u, l) : coll[i].is_completed

\* C26: lesson completion is monotonic: a (learner, lesson) that has a completed
\* LessonProgress record has one after every step of every interleaving of
\* start_lesson and complete_lesson; no step removes a record.
C26_CompletionMonotonic ==
    [][ /\ \A u \in Users, l \in LessonIds :
               Completed(lesson_progress, u, l) => Completed(lesson_progress', u, l)
        /\ Len(lesson_progress') >= Len(lesson_progress) ]_vars

\* the second of two requests in a row, a start_lesson on the lesson the first
\* completed, was answered and the record is completed
C26_Witness ==
    \E h \in Handlers :
        /\ Ended(h, "start_lesson") /\ frame[h].response = "success"
        /\ calls = 2
        /\ \A g \in Handlers \ {h} : pc[g] = "idle"
        /\ Completed(lesson_progress, frame[h].user_id, frame[h].lesson_id)

\* ------------------------------------------------------------------ soundness of grants

\* the step inserts a UserAchievement record
Grants == Len(user_achievements') = Len(user_achievements) + 1

\* C27: every UserAchievement record is created by a pass for an achievement of
\* the collection that is active, whose criteria holds lessons_completed, and
\* whose threshold is at most the number of completed lessons the pass counted
\* at its start, a number the learner's records had reached; with thresholds of
\* at least 1 a learner without a completed lesson is granted nothing.
C27_GrantsSound ==
    [][ /\ Len(user_achievements') >= Len(user_achievements)
        /\ Grants =>
               \E h \in Handlers :
                   LET a == frame[h].available_achievements[frame[h].idx]
                       r == user_achievements'[Len(user_achievements')]
                   IN  /\ pc[h] = "loop" /\ pc'[h] = "award_points"
                       /\ r.user_id = frame[h].user_id /\ r.achievement_id = a.id
                       /\ a \in AchievementSet /\ a.is_active
                       /\ "lessons_completed" \in DOMAIN a.criteria
                       /\ a.criteria["lessons_completed"] <= frame[h].lessons_completed
                       /\ frame[h].lessons_completed
                              <= CountCompleted(lesson_progress, frame[h].user_id)
        /\ \A u \in Users :
               CountCompleted(lesson_progress', u) = 0
                   => \A a \in AchievementIds : ~HasRecord(u, a)' ]_vars

\* a pass that counted two completed lessons has just granted the two-lesson
\* achievement, in a collection that holds an inactive achievement one lesson
\* would earn; that one has no record
C27_Witness ==
    \E h \in Handlers :
        /\ pc[h] = "award_points"
        /\ frame[h].available_achievements[frame[h].idx] = two_lessons
        /\ frame[h].lessons_completed = 2
        /\ HasRecord(frame[h].user_id, two_lessons.id)
        /\ \E i \in 1..Len(achievements) : achievements[i] = retired
        /\ ~HasRecord(frame[h].user_id, retired.id)

\* ------------------------------------------------------------------ no rollback

\* C28: complete_lesson has no rollback: when the check_achievements pass of a
\* request has failed, the request has failed, and the learner's LessonProgress
\* record is completed and the lesson's points are credited in the balance: the
\* stored state is not the one before the request.
C28_NoRollback ==
    \A h \in Handlers :
        (Ended(h, "complete_lesson") /\ frame[h].response = "error")
            => LET u == frame[h].user_id
                   l == frame[h].lesson_id
               IN  /\ frame[h].changed
                   /\ Completed(lesson_progress, u, l)
                   /\ lesson_awards[u][l] >= 1
                   /\ users[u].points >= lessons[l].points_reward

\* a complete_lesson request has failed in its pass and no request is in
\* flight: the lesson is completed and the balance holds its points
C28_Witness ==
    \E h \in Handlers :
        /\ Ended(h, "complete_lesson") /\ frame[h].response = "error"
        /\ NoneInFlight
        /\ Completed(lesson_progress, frame[h].user_id, frame[h].lesson_id)
        /\ users[frame[h].user_id].points >= lessons[frame[h].lesson_id].points_reward

\* ------------------------------------------------------------------ answers and students

\* C29: no response to a caller in the student role carries a quiz question
\* with a non-empty correct_answer: neither start_quiz_attempt nor
\* get_lesson_quizzes reveals the stored correct answers to a student.
C29_NoAnswersToStudents ==
    \A h \in Handlers :
        ( /\ pc[h] = "done" /\ frame[h].response = "success"
          /\ frame[h].op \in {"start_quiz_attempt", "get_lesson_quizzes"}
          /\ Role(frame[h].user_id) = "student" )
            => \A i \in 1..Len(frame[h].body) :
                   \A j \in 1..Len(ReturnedQuestions(frame[h].body[i])) :
                       ReturnedQuestions(frame[h].body[i])[j].correct_answer = ""

\* ------------------------------------------------------------------ enrolment

\* C30: a student id is at most once in a class's students list in every
\* reachable state, also when two join_class calls of the student for the class
\* run concurrently.
C30_EnrolledAtMostOnce ==
    \A i \in 1..Len(classes) : \A u \in Callers : Enrolments(classes[i], u) <= 1

====
